---- MODULE Spec2Model ----
(***************************************************************************)
(* A model of src/utils/logger.py: the Logger accumulation / dispatch core, *)
(* the three key-value adapters (tabular, tensorboard, wandb) and the      *)
(* construction of a Logger by configure_logger.                           *)
(*                                                                         *)
(* A Python dict is a function together with the insertion order of its    *)
(* keys, which is the order its items() are iterated in.                   *)
(*                                                                         *)
(* Python strings that the code inspects character by character (keys,     *)
(* rendered values, table lines) are sequences of code points, so that     *)
(* sorted(), find(), slicing and len() are computed as Python computes     *)
(* them.  Backend tokens and exception names, which the code only compares *)
(* for equality, are TLA+ strings.  Python floats are exact rationals      *)
(* [n, d] in lowest terms: the model follows the arithmetic expression of  *)
(* the code but not the rounding of IEEE doubles.                          *)
(***************************************************************************)
EXTENDS Integers, Sequences, FiniteSets, TLC

VARIABLES
    name_to_value,     \* Logger.name_to_value: key -> value
    name_to_count,     \* Logger.name_to_count: key -> int
    name_to_excluded,  \* Logger.name_to_excluded: key -> exclusion spec
    key_order,         \* the insertion order of the keys of name_to_value and of
                       \* name_to_excluded (a Python dict iterates in that order)
    level,             \* Logger.level
    output_formats,    \* Logger.output_formats with each adapter's own state
    last_op,           \* the Logger method called last, with its arguments
    raised,            \* the exception that call raised to its caller, or "none"
    calls,             \* the adapter methods that call invoked, in order
    samples,           \* history: per key, the non-null values record_mean averaged
    dirty,             \* history: keys touched by anything else in this cycle
    mean_keys,         \* history: keys record_mean was called for with a non-null
                       \* value since the maps were last cleared
    prev_name,         \* history: the name of the method called before last_op
    close_called,      \* history: whether Logger.close has been called
    nops               \* history: the number of Logger methods called so far

vars == <<name_to_value, name_to_count, name_to_excluded, key_order, level,
          output_formats, last_op, raised, calls, samples, dirty, mean_keys,
          prev_name, close_called, nops>>

(***************************************************************************)
(* Severity levels.                                                        *)
(***************************************************************************)
DEBUG == 10
INFO == 20
WARN == 30
ERROR == 40
DISABLED == 50

Levels == {DEBUG, INFO, WARN, ERROR, DISABLED}

(***************************************************************************)
(* Bounds of the model.                                                    *)
(***************************************************************************)
\* a run of Spec calls at most MaxOps methods of the Logger
MaxOps == 3
\* a run of SpecAccumulate calls at most MaxAccumulateOps of them
MaxAccumulateOps == 4
\* a run of SpecTabular calls at most MaxTabularOps of them, on a tabular
\* adapter whose max_length is the default or at most MaxConfiguredLength
MaxTabularOps == 3
MaxConfiguredLength == 7
\* a run of SpecConfigure makes at most MaxConfigureOps calls, configure_logger
\* included
MaxConfigureOps == 3

(***************************************************************************)
(* Python strings as sequences of code points.                             *)
(***************************************************************************)
Slash == 47
Space == 32
Dot == 46
Dash == 45
Pipe == 124
Zero == 48

Min(a, b) == IF a < b THEN a ELSE b
Max(a, b) == IF a > b THEN a ELSE b

\* s < t for Python strings: lexicographic by code point
RECURSIVE LexLess(_, _)
LexLess(s, t) ==
    IF s = <<>> THEN t # <<>>
    ELSE IF t = <<>> THEN FALSE
    ELSE IF Head(s) = Head(t) THEN LexLess(Tail(s), Tail(t))
    ELSE Head(s) < Head(t)

\* s[:n]
PySliceTo(s, n) ==
    IF n >= 0 THEN SubSeq(s, 1, Min(n, Len(s)))
    ELSE SubSeq(s, 1, Max(Len(s) + n, 0))

\* s[n:] for n >= 0
PySliceFrom(s, n) == SubSeq(s, Min(n, Len(s)) + 1, Len(s))

\* s.find(c) for a one-character c: the 0-based index of its first occurrence, or -1
PyFind(s, c) ==
    IF \E i \in 1..Len(s) : s[i] = c
    THEN (CHOOSE i \in 1..Len(s) : s[i] = c /\ \A j \in 1..(i - 1) : s[j] # c) - 1
    ELSE -1

\* t in s, for strings
PyContains(s, t) ==
    \E i \in 0..(Len(s) - Len(t)) : SubSeq(s, i + 1, i + Len(t)) = t

\* c * n
Repeat(c, n) == [i \in 1..Max(n, 0) |-> c]

\* the maximum of a non-empty sequence of integers
SeqMax(q) == CHOOSE m \in {q[i] : i \in 1..Len(q)} : \A i \in 1..Len(q) : q[i] <= m

(***************************************************************************)
(* Dictionaries: functions with a finite domain of keys.                   *)
(***************************************************************************)
EmptyDict == <<>>

\* a mutant of Put: d.setdefault(k, v), which keeps the entry that is there
PutIfAbsent(d, k, v) ==
    [x \in (DOMAIN d) \cup {k} |-> IF x \in DOMAIN d THEN d[x] ELSE v]

\* d[k] = v
Put(d, k, v) == [x \in (DOMAIN d) \cup {k} |-> IF x = k THEN v ELSE d[x]]

\* d[k] = v on the insertion order of d: a new key goes last, a key that is
\* there keeps its place
Inserted(order, k) ==
    IF \E i \in 1..Len(order) : order[i] = k THEN order ELSE Append(order, k)

\* d.items(): the (key, value) pairs in insertion order
Items(d, order) == [i \in 1..Len(order) |-> <<order[i], d[order[i]]>>]

\* a mutant of Sorted: the items stay in insertion order
SortedKeepsOrder(items) == items

\* sorted(items): keys are unique, so the pairs are ordered by key alone
RECURSIVE Sorted(_)
Sorted(items) ==
    IF items = <<>> THEN <<>>
    ELSE LET m == CHOOSE i \in 1..Len(items) :
                      \A j \in (1..Len(items)) \ {i} : LexLess(items[i][1], items[j][1])
         IN  <<items[m]>> \o Sorted(SubSeq(items, 1, m - 1)
                                    \o SubSeq(items, m + 1, Len(items)))

\* sorted(d.items())
SortedItems(d, order) == Sorted(Items(d, order))

\* zip(a, b): as long as the shorter of the two
Zip(a, b) == [i \in 1..Min(Len(a), Len(b)) |-> <<a[i], b[i]>>]

(***************************************************************************)
(* Values.                                                                 *)
(***************************************************************************)
RECURSIVE GCD(_, _)
GCD(a, b) == IF b = 0 THEN a ELSE GCD(b, a % b)

Abs(x) == IF x < 0 THEN -x ELSE x

\* the float n/d, in lowest terms with d > 0
Float(n, d) ==
    LET g == GCD(Abs(n), Abs(d))
        s == IF d < 0 THEN -1 ELSE 1
    IN  [kind |-> "float", n |-> (s * n) \div g, d |-> (s * d) \div g]

NoneValue == [kind |-> "None"]
FigureValue == [kind |-> "Figure"]
VideoValue == [kind |-> "Video"]
ImageValue == [kind |-> "Image"]
TensorValue == [kind |-> "Tensor"]
StrValue(s) == [kind |-> "str", s |-> s]

\* isinstance(value, np.ScalarType): Python and numpy scalars, str included
IsScalarType(value) == value.kind \in {"float", "str"}

\* a * b and a / c (c an int) and a + b on floats
FloatTimesInt(a, c) == Float(a.n * c, a.d)
FloatDivInt(a, c) == Float(a.n, a.d * c)
FloatAdd(a, b) == Float(a.n * b.d + b.n * a.d, a.d * b.d)

(***************************************************************************)
(* Conversions to text.                                                    *)
(***************************************************************************)
RECURSIVE Pow10(_)
Pow10(k) == IF k = 0 THEN 1 ELSE 10 * Pow10(k - 1)

\* the field width of the format "<8.3g"
FmtWidth == 8

\* trailing "0"s removed, as the g presentation type does
RECURSIVE StripZeros(_)
StripZeros(s) ==
    IF s # <<>> /\ s[Len(s)] = Zero THEN StripZeros(SubSeq(s, 1, Len(s) - 1)) ELSE s

\* n/d >= 10^e, for n, d > 0
AtLeastPow10(n, d, e) == IF e >= 0 THEN n >= d * Pow10(e) ELSE n * Pow10(-e) >= d

\* the decimal exponent of n/d, within the range of fixed notation
Exponent10(n, d) ==
    CHOOSE e \in (-4)..2 : AtLeastPow10(n, d, e) /\ ~AtLeastPow10(n, d, e + 1)

\* num/d rounded to an integer, half to even
RoundHalfEven(num, d) ==
    IF 2 * (num % d) > d THEN (num \div d) + 1
    ELSE IF 2 * (num % d) = d THEN (num \div d) + ((num \div d) % 2)
    ELSE num \div d

\* the three significant digits m (100..999) at decimal exponent e, in fixed
\* notation with the trailing zeros of the fraction removed
FixedNotation(digits, e) ==
    (IF e >= 0 THEN SubSeq(digits, 1, e + 1) ELSE <<Zero>>)
    \o (IF StripZeros(IF e >= 0 THEN SubSeq(digits, e + 2, 3)
                      ELSE Repeat(Zero, -e - 1) \o digits) = <<>>
        THEN <<>>
        ELSE <<Dot>> \o StripZeros(IF e >= 0 THEN SubSeq(digits, e + 2, 3)
                                   ELSE Repeat(Zero, -e - 1) \o digits))

Digits3(m) == <<Zero + (m \div 100), Zero + ((m \div 10) % 10), Zero + (m % 10)>>

\* rounding up to 1000 carries into the exponent
Fmt3gRounded(m, e) ==
    IF m = 1000
    THEN FixedNotation(Digits3(100), CHOOSE x \in (-4)..2 : x = e + 1)
    ELSE FixedNotation(Digits3(m), e)

Fmt3gScaled(n, d, e) == Fmt3gRounded(RoundHalfEven(n * Pow10(2 - e), d), e)

\* f"{value:.3g}" for a float with 0.0001 <= |value| < 999.5 or value = 0:
\* three significant digits, rounded half to even, in fixed notation.
\* (Python switches to scientific notation outside that range; the model
\* never formats such a value and has no case for it.)
Fmt3g(value) ==
    IF value.n = 0 THEN <<Zero>>
    ELSE (IF value.n < 0 THEN <<Dash>> ELSE <<>>)
         \o Fmt3gScaled(Abs(value.n), value.d, Exponent10(Abs(value.n), value.d))

\* f"{value:<8.3g}": aligned left in a field of 8
FormatFloat(value) ==
    LET s == Fmt3g(value) IN s \o Repeat(Space, FmtWidth - Len(s))

\* str(value), for the kinds of value the model passes to it
PyStr(value) ==
    CASE value.kind = "str" -> value.s
      [] value.kind = "None" -> <<78, 111, 110, 101>>

(***************************************************************************)
(* Exclusion specs: None, one string, or a tuple of strings.               *)
(***************************************************************************)
StdoutToken == <<115, 116, 100, 111, 117, 116>>
LogToken == <<108, 111, 103>>
TensorboardToken == <<116, 101, 110, 115, 111, 114, 98, 111, 97, 114, 100>>
WandbToken == <<119, 97, 110, 100, 98>>

NoExclude == [kind |-> "None"]
ExcludeStr(s) == [kind |-> "str", s |-> s]
ExcludeTuple(t) == [kind |-> "tuple", t |-> t]

\* token in excluded: a substring test on a string, membership in a tuple
TokenIn(token, excluded) ==
    CASE excluded.kind = "str" -> PyContains(excluded.s, token)
      [] excluded.kind = "tuple" -> token \in excluded.t

(***************************************************************************)
(* HumanOutputFormat                                                       *)
(***************************************************************************)
DefaultMaxLength == 36

\* a mutant of Truncate: max_length characters are kept before the "..."
TruncateNoReserve(string, max_length) ==
    IF Len(string) > max_length
    THEN PySliceTo(string, max_length) \o <<Dot, Dot, Dot>>
    ELSE string

\* HumanOutputFormat._truncate
Truncate(string, max_length) ==
    IF Len(string) > max_length
    THEN PySliceTo(string, max_length - 3) \o <<Dot, Dot, Dot>>
    ELSE string

\* the test that makes HumanOutputFormat.write skip a key
HumanExcluded(excluded) ==
    excluded.kind # "None"
        /\ (TokenIn(StdoutToken, excluded) \/ TokenIn(LogToken, excluded))

\* tag = None
NoTag == <<-1>>

\* a mutant of AppendRow: key2str as a dict keyed by the displayed key, where a
\* row replaces the row that shows the same key
AppendRowByKey(key2str, row) ==
    IF \E i \in 1..Len(key2str) : key2str[i][1] = row[1]
    THEN [i \in 1..Len(key2str) |-> IF key2str[i][1] = row[1] THEN row ELSE key2str[i]]
    ELSE key2str \o <<row>>

\* key2str.append(row)
AppendRow(key2str, row) == Append(key2str, row)

\* One iteration of the loop of HumanOutputFormat.write over the pair
\* ((key, value), (_, excluded)); st holds key2str, tag and tags, the
\* exception raised so far and (for the properties) the keys that got a row.
HumanIteration(st, pair, max_length) ==
    LET key == pair[1][1]
        value == pair[1][2]
        excluded == pair[2][2]
    IN  IF st.raised # "none" THEN st
        ELSE IF HumanExcluded(excluded) THEN st
        ELSE IF value.kind \in {"Video", "Figure", "Image"}
        THEN [st EXCEPT !.raised = "FormatUnsupportedError", !.unsupported = value.kind]
        ELSE
        LET value_str == IF value.kind = "float" THEN FormatFloat(value) ELSE PyStr(value)
            found == PyFind(key, Slash)
            newtag == found > 0
            tag == IF newtag THEN PySliceTo(key, found + 1) ELSE st.tag
            header == newtag /\ tag \notin st.tags
            tags == IF header THEN st.tags \cup {tag} ELSE st.tags
            rows1 == IF header
                     THEN AppendRow(st.key2str, <<Truncate(tag, max_length), <<>>>>)
                     ELSE st.key2str
            key1 == IF tag # NoTag /\ PyContains(key, tag)
                    THEN <<Space, Space, Space>> \o PySliceFrom(key, Len(tag))
                    ELSE key
        IN  [st EXCEPT !.tag = tag, !.tags = tags,
                       !.key2str = AppendRow(rows1, <<Truncate(key1, max_length),
                                                      Truncate(value_str, max_length)>>),
                       !.keys = Append(st.keys, key)]

RECURSIVE HumanLoop(_, _, _, _)
HumanLoop(st, pairs, i, max_length) ==
    IF i > Len(pairs) THEN st
    ELSE HumanLoop(HumanIteration(st, pairs[i], max_length), pairs, i + 1, max_length)

\* the lines of the table written to the file
HumanTable(key2str) ==
    LET key_width == SeqMax([i \in 1..Len(key2str) |-> Len(key2str[i][1])])
        val_width == SeqMax([i \in 1..Len(key2str) |-> Len(key2str[i][2])])
        dashes == Repeat(Dash, key_width + val_width + 7)
        Line(row) == <<Pipe, Space>> \o row[1] \o Repeat(Space, key_width - Len(row[1]))
                     \o <<Space, Pipe, Space>> \o row[2]
                     \o Repeat(Space, val_width - Len(row[2])) \o <<Space, Pipe>>
    IN  <<dashes>> \o [i \in 1..Len(key2str) |-> Line(key2str[i])] \o <<dashes>>

\* HumanOutputFormat.write: what the call raises, whether it warns, the lines
\* it writes to its file, and the keys it rendered a row for.  A file the
\* adapter owns and has closed refuses the write.
HumanWrite(fmt, key_values, key_excluded, step, order) ==
    LET pairs == Zip(SortedItems(key_values, order.value),
                     SortedItems(key_excluded, order.excluded))
        st0 == [raised |-> "none", unsupported |-> "none", key2str |-> <<>>,
                tag |-> NoTag, tags |-> {}, keys |-> <<>>]
        st == HumanLoop(st0, pairs, 1, fmt.max_length)
    IN  IF st.raised # "none"
        THEN [raised |-> st.raised, unsupported |-> st.unsupported, warned |-> FALSE,
              lines |-> <<>>, keys |-> <<>>]
        ELSE IF Len(st.key2str) = 0
        THEN [raised |-> "none", unsupported |-> "none", warned |-> TRUE,
              lines |-> <<>>, keys |-> <<>>]
        ELSE IF fmt.closed
        THEN [raised |-> "ValueError", unsupported |-> "none", warned |-> FALSE,
              lines |-> <<>>, keys |-> <<>>]
        ELSE [raised |-> "none", unsupported |-> "none", warned |-> FALSE,
              lines |-> HumanTable(st.key2str), keys |-> st.keys]

(***************************************************************************)
(* TensorBoardOutputFormat and WANDBOutputFormat                           *)
(***************************************************************************)
\* the SummaryWriter calls TensorBoardOutputFormat.write makes for one value
TensorBoardDispatch(key, value, step) ==
    (IF IsScalarType(value)
     THEN IF value.kind = "str"
          THEN <<[op |-> "add_text", key |-> key, value |-> value, step |-> step]>>
          ELSE <<[op |-> "add_scalar", key |-> key, value |-> value, step |-> step]>>
     ELSE <<>>)
    \o (IF value.kind = "Tensor"
        THEN <<[op |-> "add_histogram", key |-> key, value |-> value, step |-> step]>>
        ELSE <<>>)
    \o (IF value.kind = "Video"
        THEN <<[op |-> "add_video", key |-> key, value |-> value, step |-> step]>>
        ELSE <<>>)
    \o (IF value.kind = "Figure"
        THEN <<[op |-> "add_figure", key |-> key, value |-> value, step |-> step]>>
        ELSE <<>>)
    \o (IF value.kind = "Image"
        THEN <<[op |-> "add_image", key |-> key, value |-> value, step |-> step]>>
        ELSE <<>>)

\* the test that makes TensorBoardOutputFormat.write skip a key
TensorBoardExcluded(excluded) ==
    excluded.kind # "None" /\ TokenIn(TensorboardToken, excluded)

RECURSIVE TensorBoardLoop(_, _, _, _)
TensorBoardLoop(events, pairs, i, step) ==
    IF i > Len(pairs) THEN events
    ELSE LET key == pairs[i][1][1]
             value == pairs[i][1][2]
             excluded == pairs[i][2][2]
         IN  TensorBoardLoop(
                 IF TensorBoardExcluded(excluded) THEN events
                 ELSE events \o TensorBoardDispatch(key, value, step),
                 pairs, i + 1, step)

\* TensorBoardOutputFormat.write: after close() self.writer is None, and the
\* first use of it (flush() at the latest) raises AttributeError.
TensorBoardWrite(fmt, key_values, key_excluded, step, order) ==
    LET pairs == Zip(SortedItems(key_values, order.value),
                     SortedItems(key_excluded, order.excluded))
        events == TensorBoardLoop(<<>>, pairs, 1, step)
    IN  IF fmt.closed
        THEN [raised |-> "AttributeError", unsupported |-> "none", warned |-> FALSE,
              lines |-> <<>>, keys |-> <<>>]
        ELSE [raised |-> "none", unsupported |-> "none", warned |-> FALSE,
              lines |-> events, keys |-> [i \in 1..Len(events) |-> events[i].key]]

\* the test that makes WANDBOutputFormat.write skip a key
WandbExcluded(excluded) ==
    excluded.kind # "None" /\ TokenIn(WandbToken, excluded)

\* whether WANDBOutputFormat.write puts the value in wandb_dict
WandbLogs(value) ==
    IsScalarType(value) \/ value.kind \in {"Tensor", "Video", "Image"}

RECURSIVE WandbLoop(_, _, _)
WandbLoop(wandb_dict, pairs, i) ==
    IF i > Len(pairs) THEN wandb_dict
    ELSE LET key == pairs[i][1][1]
             value == pairs[i][1][2]
             excluded == pairs[i][2][2]
         IN  WandbLoop(
                 IF ~WandbExcluded(excluded) /\ WandbLogs(value)
                 THEN Put(wandb_dict, key, value)
                 ELSE wandb_dict,
                 pairs, i + 1)

\* WANDBOutputFormat.write: one wandb.log(wandb_dict)
WandbWrite(fmt, key_values, key_excluded, step, order) ==
    LET pairs == Zip(SortedItems(key_values, order.value),
                     SortedItems(key_excluded, order.excluded))
        wandb_dict == WandbLoop(EmptyDict, pairs, 1)
    IN  [raised |-> "none", unsupported |-> "none", warned |-> FALSE,
         lines |-> <<wandb_dict>>,
         keys |-> SelectSeq([i \in 1..Len(pairs) |-> pairs[i][1][1]],
                            LAMBDA k : k \in DOMAIN wandb_dict)]

(***************************************************************************)
(* Adapters as the Logger sees them.                                       *)
(***************************************************************************)
\* HumanOutputFormat(sys.stdout), HumanOutputFormat(path), TensorBoardOutputFormat(dir),
\* WANDBOutputFormat() as make_output_format builds them, and a bare SeqWriter()
Adapter(kind) ==
    [kind |-> kind, max_length |-> DefaultMaxLength, own_file |-> (kind = "log"),
     closed |-> FALSE]

\* HumanOutputFormat(sys.stdout, max_length)
TabularAdapter(max_length) == [Adapter("stdout") EXCEPT !.max_length = max_length]

\* a mutant of IsKVWriter: only the tabular adapter passes
IsKVWriterTabular(fmt) == fmt.kind \in {"stdout", "log"}

\* isinstance(_format, KVWriter)
IsKVWriter(fmt) == fmt.kind \in {"stdout", "log", "tensorboard", "wandb"}

\* isinstance(_format, SeqWriter)
IsSeqWriter(fmt) == fmt.kind \in {"stdout", "log", "SeqWriter"}

\* _format.write(key_values, key_excluded, step); order is the insertion order
\* of the two dicts passed
Write(fmt, key_values, key_excluded, step, order) ==
    CASE fmt.kind \in {"stdout", "log"} ->
            HumanWrite(fmt, key_values, key_excluded, step, order)
      [] fmt.kind = "tensorboard" ->
            TensorBoardWrite(fmt, key_values, key_excluded, step, order)
      [] fmt.kind = "wandb" -> WandbWrite(fmt, key_values, key_excluded, step, order)

\* " ".join(sequence) + "\n", as HumanOutputFormat.write_sequence writes it
RECURSIVE JoinSpaces(_, _)
JoinSpaces(sequence, i) ==
    IF i > Len(sequence) THEN <<10>>
    ELSE sequence[i] \o (IF i < Len(sequence) THEN <<Space>> ELSE <<>>)
         \o JoinSpaces(sequence, i + 1)

\* map(str, args), as a list
StrArgs(args) == [i \in 1..Len(args) |-> PyStr(args[i])]

\* _format.write_sequence(map(str, args)): the sequence passed, the exception
\* raised and the line written.  The base class raises; the tabular adapter
\* writes the line unless it has closed the file it owns.
WriteSequence(fmt, args) ==
    IF fmt.kind = "SeqWriter"
    THEN [raised |-> "NotImplementedError", sequence |-> StrArgs(args), line |-> <<>>]
    ELSE IF fmt.closed
    THEN [raised |-> "ValueError", sequence |-> StrArgs(args), line |-> <<>>]
    ELSE [raised |-> "none", sequence |-> StrArgs(args),
          line |-> JoinSpaces(StrArgs(args), 1)]

(***************************************************************************)
(* The inputs the operations are called with.                              *)
(***************************************************************************)
KeyA == <<97>>
KeyAB == <<97, Slash, 98>>
KeyB == <<98>>
Keys == {KeyAB, KeyB}
AccumulateKeys == {KeyA, KeyAB, KeyB}

RecordValues == {Float(2, 1), FigureValue}
MeanValues == {NoneValue, Float(1, 1), Float(3, 1)}
ExcludeSpecs == {NoExclude, ExcludeStr(StdoutToken),
                 ExcludeTuple({TensorboardToken, WandbToken})}
LogArgs == {<<StrValue(<<120>>), StrValue(<<121>>)>>, <<NoneValue>>}
Steps == {0, 1}
FormatLists == {<<Adapter("stdout"), Adapter("tensorboard"), Adapter("wandb")>>,
                <<Adapter("log"), Adapter("tensorboard"), Adapter("SeqWriter")>>}

\* keys and values longer than a small max_length, and two keys one longer than
\* the default max_length that differ in the last character only
LongKeyX == [i \in 1..DefaultMaxLength |-> 97] \o <<88>>
LongKeyY == [i \in 1..DefaultMaxLength |-> 97] \o <<89>>
TabularKeys == {<<97, 98, 99, 100, 101, 102, 103, 88>>,
                <<97, 98, 99, 100, 101, 102, 103, 89>>,
                <<97, Slash, 99, 100, 101, 102, 103, 104>>,
                LongKeyX, LongKeyY}
TabularValues == {Float(2, 1), StrValue(<<120, 121, 122, 120, 121, 122, 120, 121, 122>>)}
MaxLengths == (0..MaxConfiguredLength) \cup {DefaultMaxLength}

(***************************************************************************)
(* Logger                                                                  *)
(***************************************************************************)
\* Logger.__init__
LoggerInit(formats) ==
    /\ name_to_value = EmptyDict
    /\ name_to_count = EmptyDict
    /\ name_to_excluded = EmptyDict
    /\ key_order = [value |-> <<>>, excluded |-> <<>>]
    /\ level = INFO
    /\ output_formats = formats
    /\ last_op = [name |-> "__init__"]
    /\ raised = "none"
    /\ calls = <<>>
    /\ samples = EmptyDict
    /\ dirty = {}
    /\ mean_keys = {}
    /\ prev_name = "none"
    /\ close_called = FALSE
    /\ nops = 0

Init == \E formats \in FormatLists : LoggerInit(formats)

\* d with k removed (used for the history variables only)
Without(d, k) == [x \in (DOMAIN d) \ {k} |-> d[x]]

\* a mutant of Record: it also starts a count for the key
RecordCounting(key, value, exclude) ==
    /\ name_to_value' = [x \in (DOMAIN name_to_value) \cup {key} |->
                            IF x = key THEN value ELSE name_to_value[x]]
    /\ name_to_excluded' = [x \in (DOMAIN name_to_excluded) \cup {key} |->
                               IF x = key THEN exclude ELSE name_to_excluded[x]]
    /\ name_to_count' = [x \in (DOMAIN name_to_count) \cup {key} |->
                            IF x = key THEN 1 ELSE name_to_count[x]]
    /\ key_order' = [value |-> Inserted(key_order.value, key),
                     excluded |-> Inserted(key_order.excluded, key)]
    /\ last_op' = [name |-> "record", key |-> key, value |-> value, exclude |-> exclude]
    /\ raised' = "none"
    /\ calls' = <<>>
    /\ samples' = [x \in (DOMAIN samples) \ {key} |-> samples[x]]
    /\ dirty' = dirty \cup {key}
    /\ UNCHANGED <<level, output_formats, mean_keys, close_called>>

\* Logger.record
Record(key, value, exclude) ==
    /\ name_to_value' = Put(name_to_value, key, value)
    /\ name_to_excluded' = Put(name_to_excluded, key, exclude)
    /\ key_order' = [value |-> Inserted(key_order.value, key),
                     excluded |-> Inserted(key_order.excluded, key)]
    /\ last_op' = [name |-> "record", key |-> key, value |-> value, exclude |-> exclude]
    /\ raised' = "none"
    /\ calls' = <<>>
    /\ samples' = Without(samples, key)
    /\ dirty' = dirty \cup {key}
    /\ UNCHANGED <<name_to_count, level, output_formats, mean_keys, close_called>>

\* defaultdict.__getitem__: the stored entry, or the default that it inserts
GetOrDefault(d, k, default) == IF k \in DOMAIN d THEN d[k] ELSE default

\* a mutant of MeanUpdate: the old value and the new one weighted equally
MeanUpdateUnweighted(old_val, count, value) ==
    FloatDivInt(FloatAdd(old_val, value), 2)

\* old_val * count / (count + 1) + value / (count + 1)
MeanUpdate(old_val, count, value) ==
    FloatAdd(FloatDivInt(FloatTimesInt(old_val, count), count + 1),
             FloatDivInt(value, count + 1))

\* whether that expression raises TypeError: None, str and the media wrappers
\* do not support the arithmetic
MeanRaises(old_val, value) ==
    \/ old_val.kind \in {"None", "str", "Video", "Figure", "Image"}
    \/ value.kind \in {"None", "str", "Video", "Figure", "Image"}

\* Logger.record_mean
RecordMean(key, value, exclude) ==
    /\ last_op' = [name |-> "record_mean", key |-> key, value |-> value,
                   exclude |-> exclude]
    /\ calls' = <<>>
    /\ UNCHANGED <<level, output_formats, close_called>>
    /\ IF value.kind = "None"
       THEN /\ name_to_value' = Put(name_to_value, key, NoneValue)
            /\ raised' = "none"
            /\ samples' = Without(samples, key)
            /\ dirty' = dirty \cup {key}
            /\ key_order' = [key_order EXCEPT !.value = Inserted(@, key)]
            /\ UNCHANGED <<name_to_count, name_to_excluded, mean_keys>>
       ELSE LET old_val == GetOrDefault(name_to_value, key, Float(0, 1))
                count == GetOrDefault(name_to_count, key, 0)
            IN  IF MeanRaises(old_val, value)
                THEN /\ name_to_value' = Put(name_to_value, key, old_val)
                     /\ name_to_count' = Put(name_to_count, key, count)
                     /\ raised' = "TypeError"
                     /\ samples' = Without(samples, key)
                     /\ dirty' = dirty \cup {key}
                     /\ key_order' = [key_order EXCEPT !.value = Inserted(@, key)]
                     /\ mean_keys' = mean_keys \cup {key}
                     /\ UNCHANGED name_to_excluded
                ELSE /\ name_to_value' =
                            Put(name_to_value, key, MeanUpdate(old_val, count, value))
                     /\ name_to_count' = Put(name_to_count, key, count + 1)
                     /\ name_to_excluded' = Put(name_to_excluded, key, exclude)
                     /\ key_order' = [value |-> Inserted(key_order.value, key),
                                      excluded |-> Inserted(key_order.excluded, key)]
                     /\ mean_keys' = mean_keys \cup {key}
                     /\ raised' = "none"
                     /\ samples' = IF key \in dirty THEN samples
                                   ELSE Put(samples, key,
                                            Append(GetOrDefault(samples, key, <<>>), value))
                     /\ UNCHANGED dirty

\* The loop of Logger.dump over output_formats from index i on: the write
\* calls made, each with the arguments it received and what it did.  A write
\* that raises ends the loop.
RECURSIVE DumpLoop(_, _, _, _, _, _, _)
DumpLoop(formats, i, key_values, key_excluded, step, order, done) ==
    IF i > Len(formats) THEN done
    ELSE IF ~IsKVWriter(formats[i])
    THEN DumpLoop(formats, i + 1, key_values, key_excluded, step, order, done)
    ELSE LET w == Write(formats[i], key_values, key_excluded, step, order)
             call == [fmt |-> i, method |-> "write", key_values |-> key_values,
                      key_excluded |-> key_excluded, step |-> step, order |-> order,
                      raised |-> w.raised, unsupported |-> w.unsupported,
                      warned |-> w.warned, lines |-> w.lines, keys |-> w.keys]
         IN  IF w.raised # "none" THEN Append(done, call)
             ELSE DumpLoop(formats, i + 1, key_values, key_excluded, step, order,
                           Append(done, call))

\* the exception a sequence of adapter calls ended with
Raised(done) ==
    IF done # <<>> /\ done[Len(done)].raised # "none"
    THEN done[Len(done)].raised ELSE "none"

\* a mutant of Clear: the map keeps its entries
ClearKeeps(d) == d

\* d.clear()
Clear(d) == EmptyDict

\* a mutant of DumpReturnsEarly: a comparison that no level satisfies
DumpReturnsEarlyAbove(threshold) == threshold > DISABLED

\* the early return of Logger.dump
DumpReturnsEarly(threshold) == threshold = DISABLED

\* Logger.dump
Dump(step) ==
    /\ last_op' = [name |-> "dump", step |-> step]
    /\ UNCHANGED <<level, output_formats, close_called>>
    /\ IF DumpReturnsEarly(level)
       THEN /\ calls' = <<>>
            /\ raised' = "none"
            /\ samples' = EmptyDict
            /\ dirty' = dirty \cup DOMAIN name_to_value
            /\ UNCHANGED <<name_to_value, name_to_count, name_to_excluded, key_order,
                           mean_keys>>
       ELSE LET done == DumpLoop(output_formats, 1, name_to_value, name_to_excluded,
                                 step, key_order, <<>>)
            IN  /\ calls' = done
                /\ raised' = Raised(done)
                /\ IF Raised(done) # "none"
                   THEN /\ samples' = EmptyDict
                        /\ dirty' = dirty \cup DOMAIN name_to_value
                        /\ UNCHANGED <<name_to_value, name_to_count, name_to_excluded,
                                       key_order, mean_keys>>
                   ELSE /\ name_to_value' = Clear(name_to_value)
                        /\ name_to_count' = Clear(name_to_count)
                        /\ name_to_excluded' = Clear(name_to_excluded)
                        /\ key_order' = [value |-> Clear(key_order.value),
                                         excluded |-> Clear(key_order.excluded)]
                        /\ samples' = EmptyDict
                        /\ mean_keys' = {}
                        /\ dirty' = {}

\* The loop of Logger._do_log
RECURSIVE DoLogLoop(_, _, _, _)
DoLogLoop(formats, i, args, done) ==
    IF i > Len(formats) THEN done
    ELSE IF ~IsSeqWriter(formats[i]) THEN DoLogLoop(formats, i + 1, args, done)
    ELSE LET w == WriteSequence(formats[i], args)
             call == [fmt |-> i, method |-> "write_sequence", raised |-> w.raised,
                      sequence |-> w.sequence, line |-> w.line]
         IN  IF w.raised # "none" THEN Append(done, call)
             ELSE DoLogLoop(formats, i + 1, args, Append(done, call))

\* a mutant of LogPasses: a strict comparison
LogPassesStrict(threshold, lvl) == threshold < lvl

\* the test of Logger.log
LogPasses(threshold, lvl) == threshold <= lvl

\* Logger.log (debug, info, warn and error are log with a fixed level)
Log(args, lvl) ==
    /\ last_op' = [name |-> "log", args |-> args, level |-> lvl]
    /\ UNCHANGED <<name_to_value, name_to_count, name_to_excluded, key_order, level,
                   output_formats, samples, dirty, mean_keys, close_called>>
    /\ IF LogPasses(level, lvl)
       THEN LET done == DoLogLoop(output_formats, 1, args, <<>>)
            IN  calls' = done /\ raised' = Raised(done)
       ELSE calls' = <<>> /\ raised' = "none"

\* Logger.set_level
SetLevel(lvl) ==
    /\ level' = lvl
    /\ last_op' = [name |-> "set_level", level |-> lvl]
    /\ raised' = "none"
    /\ calls' = <<>>
    /\ UNCHANGED <<name_to_value, name_to_count, name_to_excluded, key_order,
                   output_formats, samples, dirty, mean_keys, close_called>>

\* _format.close(): the exception it raises and the adapter afterwards.
\* HumanOutputFormat closes the file it owns; os_error says that the operating
\* system reports a failure when that file is flushed and closed (the file
\* object is closed all the same).  TensorBoardOutputFormat closes its writer
\* once; WANDBOutputFormat does nothing; SeqWriter has no close method.
CloseAdapter(fmt, os_error) ==
    CASE fmt.kind = "log" ->
            [raised |-> IF os_error /\ ~fmt.closed THEN "OSError" ELSE "none",
             released |-> ~fmt.closed, fmt |-> [fmt EXCEPT !.closed = TRUE]]
      [] fmt.kind = "stdout" -> [raised |-> "none", released |-> FALSE, fmt |-> fmt]
      [] fmt.kind = "tensorboard" ->
            [raised |-> "none", released |-> ~fmt.closed,
             fmt |-> [fmt EXCEPT !.closed = TRUE]]
      [] fmt.kind = "wandb" -> [raised |-> "none", released |-> FALSE, fmt |-> fmt]
      [] fmt.kind = "SeqWriter" ->
            [raised |-> "AttributeError", released |-> FALSE, fmt |-> fmt]

\* The loop of Logger.close: the adapters afterwards and the close calls made
RECURSIVE CloseLoop(_, _, _, _)
CloseLoop(formats, i, os_error, done) ==
    IF i > Len(formats) THEN [formats |-> formats, calls |-> done]
    ELSE LET c == CloseAdapter(formats[i], os_error)
             call == [fmt |-> i, method |-> "close", raised |-> c.raised,
                      released |-> c.released]
             after == [formats EXCEPT ![i] = c.fmt]
         IN  IF c.raised # "none" THEN [formats |-> after, calls |-> Append(done, call)]
             ELSE CloseLoop(after, i + 1, os_error, Append(done, call))

\* Logger.close
Close(os_error) ==
    LET r == CloseLoop(output_formats, 1, os_error, <<>>)
    IN  /\ output_formats' = r.formats
        /\ calls' = r.calls
        /\ raised' = Raised(r.calls)
        /\ last_op' = [name |-> "close"]
        /\ close_called' = TRUE
        /\ UNCHANGED <<name_to_value, name_to_count, name_to_excluded, key_order,
                       level, samples, dirty, mean_keys>>

(***************************************************************************)
(* make_output_format and configure_logger                                 *)
(***************************************************************************)
\* what a construction depends on outside the module: whether a wandb run is
\* active (wandb.run) and whether tensorboard's SummaryWriter was imported
Environments == [wandb_run : BOOLEAN, summary_writer : BOOLEAN]

\* a mutant of WandbNotInitialized: the constructor does not look at wandb.run
WandbNotInitializedNever(env) == FALSE

\* wandb.run is None
WandbNotInitialized(env) == ~env.wandb_run

NoAdapter == [kind |-> "none"]

\* make_output_format(_format, log_dir, log_suffix): the adapter it returns or
\* the exception that it, or the constructor it calls, raises
MakeOutputFormat(token, env) ==
    IF token = "stdout"
    THEN [raised |-> "none", message |-> "", adapter |-> Adapter("stdout")]
    ELSE IF token = "log"
    THEN [raised |-> "none", message |-> "", adapter |-> Adapter("log")]
    ELSE IF token = "tensorboard"
    THEN IF env.summary_writer
         THEN [raised |-> "none", message |-> "", adapter |-> Adapter("tensorboard")]
         ELSE [raised |-> "AssertionError", message |-> "tensorboard is not installed",
               adapter |-> NoAdapter]
    ELSE IF token = "wandb"
    THEN IF WandbNotInitialized(env)
         THEN [raised |-> "ValueError", message |-> "WandB is not initialized",
               adapter |-> NoAdapter]
         ELSE [raised |-> "none", message |-> "", adapter |-> Adapter("wandb")]
    ELSE [raised |-> "ValueError", message |-> "Unknown format specified",
          adapter |-> NoAdapter]

\* [make_output_format(f, folder, log_suffix) for f in format_strings]: the
\* constructions made, up to the first that raises
RECURSIVE MakeLoop(_, _, _, _)
MakeLoop(tokens, i, env, done) ==
    IF i > Len(tokens) THEN done
    ELSE LET m == MakeOutputFormat(tokens[i], env)
             call == [method |-> "__init__", token |-> tokens[i], raised |-> m.raised,
                      message |-> m.message, adapter |-> m.adapter]
         IN  IF m.raised # "none" THEN Append(done, call)
             ELSE MakeLoop(tokens, i + 1, env, Append(done, call))

\* list(filter(None, format_strings))
FilterNone(format_strings) == SelectSeq(format_strings, LAMBDA f : f # "")

\* the folder "d" and f"Logging to {folder}"
Folder == <<100>>
LoggingTo == <<76, 111, 103, 103, 105, 110, 103, Space, 116, 111, Space>> \o Folder

\* configure_logger(folder, format_strings): either a construction raises and
\* no Logger is made, or the Logger is made of the adapters and, unless the
\* tokens are none or "stdout" alone, logs where it writes to
ConfigureLogger(format_strings, env) ==
    LET tokens == FilterNone(format_strings)
        built == MakeLoop(tokens, 1, env, <<>>)
        adapters == [i \in 1..Len(built) |-> built[i].adapter]
        logged == IF Len(tokens) > 0 /\ tokens # <<"stdout">>
                  THEN DoLogLoop(adapters, 1, <<StrValue(LoggingTo)>>, <<>>)
                  ELSE <<>>
    IN  /\ last_op.name = "start"
        /\ last_op' = [name |-> "configure_logger", format_strings |-> format_strings,
                       env |-> env]
        /\ IF Raised(built) # "none"
           THEN /\ raised' = Raised(built)
                /\ calls' = built
                /\ UNCHANGED <<name_to_value, name_to_count, name_to_excluded,
                               key_order, level, output_formats>>
           ELSE /\ name_to_value' = EmptyDict
                /\ name_to_count' = EmptyDict
                /\ name_to_excluded' = EmptyDict
                /\ key_order' = [value |-> <<>>, excluded |-> <<>>]
                /\ level' = INFO
                /\ output_formats' = adapters
                /\ raised' = Raised(logged)
                /\ calls' = built \o logged
        /\ UNCHANGED <<samples, dirty, mean_keys, close_called>>

\* one more method call, in a run of at most max calls
Tick(max) ==
    /\ nops < max
    /\ nops' = nops + 1
    /\ prev_name' = last_op.name

Next ==
    \/ \E key \in Keys, value \in RecordValues, exclude \in ExcludeSpecs :
            Tick(MaxOps) /\ Record(key, value, exclude)
    \/ \E key \in Keys, value \in MeanValues, exclude \in ExcludeSpecs :
            Tick(MaxOps) /\ RecordMean(key, value, exclude)
    \/ \E step \in Steps : Tick(MaxOps) /\ Dump(step)
    \/ \E args \in LogArgs, lvl \in Levels : Tick(MaxOps) /\ Log(args, lvl)
    \/ \E lvl \in Levels : Tick(MaxOps) /\ SetLevel(lvl)
    \/ \E os_error \in BOOLEAN : Tick(MaxOps) /\ Close(os_error)

Spec == Init /\ [][Next]_vars

\* Longer runs of the accumulation cycle alone: record with a float, record_mean
\* with None, and dump.
NextAccumulate ==
    \/ \E key \in AccumulateKeys, exclude \in ExcludeSpecs :
            Tick(MaxAccumulateOps) /\ Record(key, Float(2, 1), exclude)
    \/ \E key \in AccumulateKeys : Tick(MaxAccumulateOps) /\ RecordMean(key, NoneValue, NoExclude)
    \/ Tick(MaxAccumulateOps) /\ Dump(0)

SpecAccumulate == Init /\ [][NextAccumulate]_vars

\* A Logger with one tabular adapter of a given max_length, and keys and values
\* that it truncates.
InitTabular == \E max_length \in MaxLengths : LoggerInit(<<TabularAdapter(max_length)>>)

NextTabular ==
    \/ \E key \in TabularKeys, value \in TabularValues :
            Tick(MaxTabularOps) /\ Record(key, value, NoExclude)
    \/ Tick(MaxTabularOps) /\ Dump(0)

SpecTabular == InitTabular /\ [][NextTabular]_vars

\* A program that calls configure_logger and then, if it got a Logger, its
\* methods.
FormatStrings ==
    {<<>>, <<"stdout">>, <<"", "stdout">>, <<"log">>, <<"stdout", "log">>,
     <<"tensorboard">>, <<"wandb", "log">>, <<"log", "tensorboard", "wandb">>,
     <<"json">>, <<"json", "log">>, <<"log", "json">>, <<"log", "tensorboard", "json">>}

InitConfigure ==
    /\ name_to_value = EmptyDict
    /\ name_to_count = EmptyDict
    /\ name_to_excluded = EmptyDict
    /\ key_order = [value |-> <<>>, excluded |-> <<>>]
    /\ level = INFO
    /\ output_formats = <<>>
    /\ last_op = [name |-> "start"]
    /\ raised = "none"
    /\ calls = <<>>
    /\ samples = EmptyDict
    /\ dirty = {}
    /\ mean_keys = {}
    /\ prev_name = "none"
    /\ close_called = FALSE
    /\ nops = 0

\* configure_logger has returned a Logger
LoggerReturned ==
    /\ last_op.name # "start"
    /\ ~(last_op.name = "configure_logger" /\ raised # "none")

NextConfigure ==
    \/ \E format_strings \in FormatStrings, env \in Environments :
            Tick(MaxConfigureOps) /\ ConfigureLogger(format_strings, env)
    \/ LoggerReturned /\ Tick(MaxConfigureOps) /\ Record(KeyB, Float(2, 1), NoExclude)
    \/ LoggerReturned /\ Tick(MaxConfigureOps) /\ Dump(0)
    \/ \E args \in LogArgs : LoggerReturned /\ Tick(MaxConfigureOps) /\ Log(args, INFO)
    \/ \E os_error \in BOOLEAN : LoggerReturned /\ Tick(MaxConfigureOps) /\ Close(os_error)

SpecConfigure == InitConfigure /\ [][NextConfigure]_vars

(***************************************************************************)
(* Properties                                                              *)
(***************************************************************************)
MapsEmpty ==
    /\ DOMAIN name_to_value = {}
    /\ DOMAIN name_to_count = {}
    /\ DOMAIN name_to_excluded = {}

\* the adapter that received a call
CallFormat(call) == output_formats[call.fmt]

\* the adapter's backend, the tabular adapter being one backend under two tokens
NamesBackend(excluded, kind) ==
    /\ excluded.kind # "None"
    /\ CASE kind \in {"stdout", "log"} ->
                TokenIn(StdoutToken, excluded) \/ TokenIn(LogToken, excluded)
         [] kind = "tensorboard" -> TokenIn(TensorboardToken, excluded)
         [] kind = "wandb" -> TokenIn(WandbToken, excluded)

\* C1: when an adapter's write raises during dump (threshold not DISABLED), the
\* error reaches the caller of dump and the value, count and exclusion maps are
\* empty when dump hands back control.
C1_FailedDumpClearsMaps ==
    (last_op.name = "dump" /\ raised # "none") => MapsEmpty

\* C2: a key whose current exclusion spec names backend B is never rendered or
\* forwarded by B's write, whatever was recorded before the dump.
C2_ExcludedKeyNeverWritten ==
    last_op.name = "dump" =>
        \A i \in 1..Len(calls) : \A j \in 1..Len(calls[i].keys) :
            LET key == calls[i].keys[j]
            IN  key \in DOMAIN calls[i].key_excluded =>
                    ~NamesBackend(calls[i].key_excluded[key], CallFormat(calls[i]).kind)

\* C3: in every reachable state, every key of the value map has an entry in the
\* exclusion map.
C3_ValueKeysHaveExclusion ==
    DOMAIN name_to_value \subseteq DOMAIN name_to_excluded

RECURSIVE SeqSum(_)
SeqSum(q) == IF q = <<>> THEN Float(0, 1) ELSE FloatAdd(q[1], SeqSum(Tail(q)))

\* (v_1 + ... + v_m) / m
MeanOf(q) == FloatDivInt(SeqSum(q), Len(q))

\* (old_value * n + value) / (n + 1), old_value the mean of the first n values
IncrementalMean(q) ==
    LET n == Len(q) - 1
        old_value == IF n = 0 THEN Float(0, 1) ELSE MeanOf(SubSeq(q, 1, n))
    IN  FloatDivInt(FloatAdd(FloatTimesInt(old_value, n), q[n + 1]), n + 1)

\* C4: after record_mean(k, v_1), ..., record_mean(k, v_m) with non-null values,
\* no dump in between and nothing else done to k, the stored value of k is the
\* arithmetic mean of the v_i (so the same for every order of them), it is the
\* incremental update of the mean of the first m - 1, and the count of k is m.
C4_RunningMean ==
    \A k \in DOMAIN samples :
        /\ k \in DOMAIN name_to_value /\ k \in DOMAIN name_to_count
        /\ name_to_value[k] = MeanOf(samples[k])
        /\ name_to_value[k] = IncrementalMean(samples[k])
        /\ name_to_count[k] = Len(samples[k])

C4_Witness ==
    \E k \in DOMAIN samples :
        /\ Len(samples[k]) >= 3
        /\ samples[k][1] # samples[k][2]
        /\ last_op.name = "record_mean"

\* C5: record_mean(k, None) leaves the count of k as if k had never accumulated:
\* a record_mean(k, v) with a non-null v that follows it succeeds and stores v
\* with count 1.
C5_NullResetsMean ==
    [][(/\ last_op.name = "record_mean"
        /\ last_op.value.kind = "None"
        /\ last_op'.name = "record_mean"
        /\ last_op'.key = last_op.key
        /\ last_op'.value.kind # "None")
       => (/\ raised' = "none"
           /\ name_to_value'[last_op.key] = last_op'.value
           /\ name_to_count'[last_op.key] = 1)]_vars

\* a dump that was made at a threshold other than DISABLED and returned
DumpReturned == last_op.name = "dump" /\ raised = "none" /\ level # DISABLED

\* the tabular adapters were called, warned of an empty dump and wrote no table
OnlyEmptyWarning(done) ==
    /\ \A i \in 1..Len(output_formats) :
            output_formats[i].kind \in {"stdout", "log"} =>
                \E j \in 1..Len(done) : done[j].fmt = i
    /\ \A j \in 1..Len(done) :
            output_formats[done[j].fmt].kind \in {"stdout", "log"} =>
                done[j].warned /\ done[j].lines = <<>>

\* C6 as stated: after any call to dump returns, the three maps are empty.
C6_ReturnedDumpClearsMaps ==
    (last_op.name = "dump" /\ raised = "none") => MapsEmpty

\* C6 as amended: after a call to dump at a threshold other than DISABLED
\* returns, the three maps are empty; a dump that follows it immediately raises
\* nothing, makes the tabular adapter emit only the empty-dump warning and
\* write no table, and leaves the maps empty.
C6_DumpClearsMaps ==
    [][/\ DumpReturned' => MapsEmpty'
       /\ (DumpReturned /\ last_op'.name = "dump")
            => (raised' = "none" /\ MapsEmpty' /\ OnlyEmptyWarning(calls'))]_vars

C6_Witness ==
    /\ prev_name = "dump"
    /\ DumpReturned
    /\ \E j \in 1..Len(calls) : calls[j].warned

\* C7: at threshold DISABLED dump invokes no adapter's write and leaves the
\* value, count and exclusion maps as they were.
C7_DisabledDumpIsNoOp ==
    [][(level = DISABLED /\ last_op'.name = "dump")
       => (/\ calls' = <<>>
           /\ raised' = "none"
           /\ UNCHANGED <<name_to_value, name_to_count, name_to_excluded,
                          output_formats>>)]_vars

C7_Witness ==
    /\ last_op.name = "dump"
    /\ level = DISABLED
    /\ DOMAIN name_to_value # {}

\* the indexes, in registration order, of the adapters of the given kinds
IndexesOf(formats, kinds) ==
    SelectSeq([i \in 1..Len(formats) |-> i], LAMBDA i : formats[i].kind \in kinds)

\* C8: a dump at a threshold other than DISABLED in which no adapter raises
\* calls write once on each adapter that is a key-value writer, in registration
\* order, with the whole value map, the whole exclusion map and the step of the
\* dump, as they were before the maps are cleared; other adapters are not called.
C8_DumpWritesEveryKVWriterOnce ==
    [][(level # DISABLED /\ last_op'.name = "dump" /\ raised' = "none")
       => LET kv == IndexesOf(output_formats,
                              {"stdout", "log", "tensorboard", "wandb"})
          IN  /\ Len(calls') = Len(kv)
              /\ \A j \in 1..Len(kv) :
                    /\ calls'[j].fmt = kv[j]
                    /\ calls'[j].method = "write"
                    /\ calls'[j].key_values = name_to_value
                    /\ calls'[j].key_excluded = name_to_excluded
                    /\ calls'[j].step = last_op'.step
              /\ MapsEmpty']_vars

C8_Witness ==
    /\ DumpReturned
    /\ \E i \in 1..Len(output_formats) : output_formats[i].kind = "SeqWriter"
    /\ Len(calls) = 2
    /\ DOMAIN calls[2].key_values # {}
    /\ last_op.step = 1

\* C9: on a Logger that has not been closed, log(*parts, level) passes the
\* parts, in order and converted to strings, once to each adapter that is a
\* sequence writer if and only if threshold <= level; otherwise no adapter is
\* called and nothing is raised.  In both cases the threshold and the three
\* maps are unchanged.
C9_LogForwardsAtOrAboveThreshold ==
    [][last_op'.name = "log"
       => /\ UNCHANGED <<name_to_value, name_to_count, name_to_excluded, level>>
          /\ ~close_called =>
                IF level <= last_op'.level
                THEN LET sw == IndexesOf(output_formats, {"stdout", "log", "SeqWriter"})
                     IN  /\ Len(calls') = Len(sw)
                         /\ \A j \in 1..Len(sw) :
                                /\ calls'[j].fmt = sw[j]
                                /\ calls'[j].method = "write_sequence"
                                /\ calls'[j].sequence =
                                       [i \in 1..Len(last_op'.args) |->
                                            PyStr(last_op'.args[i])]
                ELSE calls' = <<>> /\ raised' = "none"]_vars

C9_Witness ==
    /\ last_op.name = "log"
    /\ ~close_called
    /\ level = WARN
    /\ last_op.level = ERROR
    /\ Len(last_op.args) = 2
    /\ Len(calls) = 1
    /\ calls[1].line = <<120, Space, 121, 10>>

\* C10: close calls close on every adapter, in registration order, also when
\* the close of an earlier adapter fails.
C10_CloseAttemptsEveryAdapter ==
    last_op.name = "close" =>
        /\ Len(calls) = Len(output_formats)
        /\ \A i \in 1..Len(calls) : calls[i].fmt = i /\ calls[i].method = "close"

\* whether the adapter's write has a branch for the kind of the value: the
\* tabular adapter renders everything but the media wrappers, the tensorboard
\* adapter has an add_* call for scalars, strings, tensors and the three
\* wrappers, the wandb adapter logs scalars, strings, tensors, videos and images
HasHandler(kind, value) ==
    CASE kind \in {"stdout", "log"} -> value.kind \notin {"Video", "Figure", "Image"}
      [] kind = "tensorboard" ->
            IsScalarType(value) \/ value.kind \in {"Tensor", "Video", "Figure", "Image"}
      [] kind = "wandb" -> IsScalarType(value) \/ value.kind \in {"Tensor", "Video", "Image"}

\* the kinds of value the specification lists: number, string, tensor and the
\* three media wrappers
IsListedKind(value) ==
    value.kind \in {"float", "str", "Tensor", "Video", "Figure", "Image"}

\* C11: a write of a key-value adapter that is handed a key which its own
\* exclusion spec does not exclude from the adapter and whose value is of a
\* kind the adapter does not support raises FormatUnsupportedError naming a
\* kind it does not support; the value is not dropped silently.
C11_UnsupportedKindRaises ==
    last_op.name = "dump" =>
        \A i \in 1..Len(calls) :
            LET kind == CallFormat(calls[i]).kind
                kv == calls[i].key_values
                ke == calls[i].key_excluded
            IN  (\E k \in (DOMAIN kv) \cap (DOMAIN ke) :
                    /\ ~NamesBackend(ke[k], kind)
                    /\ IsListedKind(kv[k])
                    /\ ~HasHandler(kind, kv[k]))
                => /\ calls[i].raised = "FormatUnsupportedError"
                   /\ \E k \in DOMAIN kv : calls[i].unsupported = kv[k].kind

\* C12: every record_mean(k, value, exclude), with a null value or not, leaves
\* the exclusion map with exclude stored for k.
C12_RecordMeanOverwritesExclusion ==
    [][last_op'.name = "record_mean"
       => /\ last_op'.key \in DOMAIN name_to_excluded'
          /\ name_to_excluded'[last_op'.key] = last_op'.exclude]_vars

\* C15: record(key, value, exclude) raises nothing and leaves the value and the
\* exclusion spec of key equal to the arguments, whatever was stored before;
\* the entries of the other keys, the count map, the threshold and the adapter
\* list are as before, and no adapter is called.
C15_RecordOverwritesOneKey ==
    [][last_op'.name = "record"
       => LET k == last_op'.key
          IN  /\ raised' = "none"
              /\ DOMAIN name_to_value' = (DOMAIN name_to_value) \cup {k}
              /\ DOMAIN name_to_excluded' = (DOMAIN name_to_excluded) \cup {k}
              /\ name_to_value'[k] = last_op'.value
              /\ name_to_excluded'[k] = last_op'.exclude
              /\ \A x \in (DOMAIN name_to_value) \ {k} :
                    name_to_value'[x] = name_to_value[x]
              /\ \A x \in (DOMAIN name_to_excluded) \ {k} :
                    name_to_excluded'[x] = name_to_excluded[x]
              /\ UNCHANGED <<name_to_count, level, output_formats>>
              /\ calls' = <<>>]_vars

C15_Witness ==
    /\ last_op.name = "record"
    /\ prev_name = "record_mean"
    /\ last_op.key \in DOMAIN name_to_count
    /\ last_op.value.kind = "Figure"
    /\ last_op.exclude.kind = "tuple"
    /\ \E x \in DOMAIN name_to_value : x # last_op.key

\* the keys in strictly increasing lexicographic order
Ascending(keys) == \A j \in 1..(Len(keys) - 1) : LexLess(keys[j], keys[j + 1])

Reverse(q) == [i \in 1..Len(q) |-> q[Len(q) + 1 - i]]

\* C16: each write of a dump takes the keys in lexicographic order, and what it
\* renders, forwards or raises is the same when the same entries were recorded
\* in the opposite order.
C16_WriteOrderIsLexicographic ==
    last_op.name = "dump" =>
        \A i \in 1..Len(calls) :
            LET opposite == [value |-> Reverse(calls[i].order.value),
                             excluded |-> Reverse(calls[i].order.excluded)]
                w == Write(CallFormat(calls[i]), calls[i].key_values,
                           calls[i].key_excluded, calls[i].step, opposite)
            IN  /\ Ascending(calls[i].keys)
                /\ w.raised = calls[i].raised
                /\ w.unsupported = calls[i].unsupported
                /\ w.warned = calls[i].warned
                /\ w.lines = calls[i].lines
                /\ w.keys = calls[i].keys

C16_Witness ==
    /\ last_op.name = "dump"
    /\ \E i \in 1..Len(calls) :
            /\ CallFormat(calls[i]).kind = "tensorboard"
            /\ Len(calls[i].keys) = 2
            /\ ~Ascending(calls[i].order.value)
    /\ \E i \in 1..Len(calls) :
            /\ CallFormat(calls[i]).kind \in {"stdout", "log"}
            /\ Len(calls[i].lines) = 5

C20_UnexcludedKeyGetsOneRow ==
    last_op.name = "dump" =>
        \A i \in 1..Len(calls) :
            (CallFormat(calls[i]).kind \in {"stdout", "log"} /\ calls[i].raised = "none")
            => \A k \in (DOMAIN calls[i].key_values) \cap (DOMAIN calls[i].key_excluded) :
                    (/\ ~NamesBackend(calls[i].key_excluded[k], "stdout")
                     /\ HasHandler("stdout", calls[i].key_values[k]))
                    => Cardinality({j \in 1..Len(calls[i].keys) :
                                        calls[i].keys[j] = k}) = 1

\* the key as a row of the table shows it: without its tag, indented, truncated
DisplayedKey(key, max_length) ==
    Truncate(IF PyFind(key, Slash) > 0
             THEN <<Space, Space, Space>> \o PySliceFrom(key, PyFind(key, Slash) + 1)
             ELSE key,
             max_length)

\* the number of rows of the table whose key column shows the string
RowsShowing(lines, string) ==
    Cardinality({j \in 2..(Len(lines) - 1) :
                    /\ Len(lines[j]) >= Len(string) + 3
                    /\ SubSeq(lines[j], 1, Len(string) + 3)
                           = <<Pipe, Space>> \o string \o <<Space>>})

ValueString(value) == IF value.kind = "float" THEN FormatFloat(value) ELSE PyStr(value)

\* the string itself if it is no longer than max_length, otherwise its first
\* max_length - 3 characters and "..."
FirstCharactersAndEllipsis(string, max_length) ==
    IF Len(string) <= max_length THEN string
    ELSE SubSeq(string, 1, max_length - 3) \o <<Dot, Dot, Dot>>

\* what C18 says of the tabular adapter f
TruncatedToMaxLength(f) ==
            LET max_length == output_formats[f].max_length
            IN  /\ \A k \in DOMAIN name_to_value :
                        \A string \in {k, ValueString(name_to_value[k])} :
                            /\ Truncate(string, max_length)
                                   = FirstCharactersAndEllipsis(string, max_length)
                            /\ Len(Truncate(string, max_length)) <= max_length
                /\ last_op.name = "dump" =>
                        \A i \in 1..Len(calls) : \A j \in 1..Len(calls[i].lines) :
                            calls[i].fmt = f =>
                                Len(calls[i].lines[j]) <= 2 * max_length + 7

FailsToConstruct(token, env) ==
    \/ token \notin {"stdout", "log", "tensorboard", "wandb"}
    \/ token = "wandb" /\ ~env.wandb_run
    \/ token = "tensorboard" /\ ~env.summary_writer

\* C13: configure_logger with a token list holding, at any position, an
\* unrecognized token or a backend whose precondition fails raises (for the
\* first such token) and makes no Logger: no adapter list is set and no adapter
\* was written to; otherwise it returns a Logger with one adapter per token.
C13_BadTokenAbortsConstruction ==
    last_op.name = "configure_logger" =>
        LET tokens == SelectSeq(last_op.format_strings, LAMBDA f : f # "")
            env == last_op.env
            bad == {i \in 1..Len(tokens) : FailsToConstruct(tokens[i], env)}
        IN  IF bad # {}
            THEN /\ raised \in {"ValueError", "AssertionError"}
                 /\ output_formats = <<>>
                 /\ \A i \in 1..Len(calls) : calls[i].method = "__init__"
                 /\ Len(calls) \in bad
                 /\ \A i \in bad : Len(calls) <= i
                 /\ calls[Len(calls)].raised = raised
                 /\ (tokens[Len(calls)] \notin {"stdout", "log", "tensorboard", "wandb"})
                        => calls[Len(calls)].message = "Unknown format specified"
            ELSE /\ raised = "none"
                 /\ Len(output_formats) = Len(tokens)
                 /\ \A i \in 1..Len(tokens) : output_formats[i].kind = tokens[i]

C13_Witness ==
    /\ last_op.name = "configure_logger"
    /\ raised = "ValueError"
    /\ Len(calls) = 3
    /\ calls[3].token = "json"
    /\ calls[3].message = "Unknown format specified"

\* the adapter holds a resource of its own: the log file, the SummaryWriter
OwnsResource(fmt) == fmt.kind \in {"log", "tensorboard"}

\* C14: an adapter that was constructed releases its resource exactly once:
\* it has been closed when configure_logger has aborted and when close has been
\* called, no close releases the resource of an adapter that was closed
\* before, and no write or write_sequence reaches an adapter that was closed.
C14_AdaptersReleasedOnce ==
    [][/\ (last_op'.name = "configure_logger" /\ raised' # "none")
            => \A i \in 1..Len(calls') :
                    (calls'[i].raised = "none" /\ OwnsResource(calls'[i].adapter))
                    => calls'[i].adapter.closed
       /\ last_op'.name = "close"
            => /\ \A i \in 1..Len(output_formats') :
                    OwnsResource(output_formats'[i]) => output_formats'[i].closed
               /\ \A i \in 1..Len(calls') :
                    calls'[i].released => ~output_formats[calls'[i].fmt].closed
       /\ last_op'.name \in {"dump", "log"}
            => \A i \in 1..Len(calls') : ~output_formats[calls'[i].fmt].closed]_vars

====
